---- MODULE Spec2Model ----
(***************************************************************************)
(* Smart Knowledge Assistant: the retrieval service (routers/rag.py), the  *)
(* usage ledger and history log (utils/history.py), the history listing    *)
(* (routers/history.py) and the ingestion worker (tasks/celery_tasks.py),  *)
(* as state machines over the files they share.                            *)
(*                                                                         *)
(* Text is a sequence of one-character strings; a file is NoFile or its    *)
(* content.  Days are integers counted in UTC.                             *)
(***************************************************************************)
EXTENDS Integers, Sequences, FiniteSets, TLC

\* ------------------------------------------------------------------ bounds
MaxDay == 2
MaxLimit == 2
MaxListLimit == 3
MaxOffset == 2
MaxProcs == 2
MaxStartCount == 1
MaxChunks == 2

\* --------------------------------------------------------- program constants
TopK == 3
PreviewLen == 300
LlmPreviewLen == 200

\* A file: absent, or present with a content.
\* torn marks an index file that is being written: read_index fails on it.
NoFile == [exists |-> FALSE, content |-> <<>>, torn |-> FALSE]
File(content) == [exists |-> TRUE, content |-> content, torn |-> FALSE]
TornFile == [exists |-> TRUE, content |-> <<>>, torn |-> TRUE]
Users == {"u1", "u2"}
Days == 1..MaxDay

\* ------------------------------------------------------------- text helpers
Min(a, b) == IF a <= b THEN a ELSE b
Max(a, b) == IF a >= b THEN a ELSE b

IsSpace(c) == c \in {" ", "\n", "\t"}

Take(s, n) == SubSeq(s, 1, Min(n, Len(s)))
Drop(s, n) == SubSeq(s, n + 1, Len(s))

RECURSIVE LStrip(_)
LStrip(s) == IF s # <<>> /\ IsSpace(Head(s)) THEN LStrip(Tail(s)) ELSE s

RECURSIVE RStrip(_)
RStrip(s) ==
    IF s # <<>> /\ IsSpace(s[Len(s)]) THEN RStrip(SubSeq(s, 1, Len(s) - 1)) ELSE s

\* str.strip()
Strip(s) == RStrip(LStrip(s))

\* sep.join(parts)
RECURSIVE Join(_, _)
Join(parts, sep) ==
    IF parts = <<>> THEN <<>>
    ELSE IF Len(parts) = 1 THEN parts[1]
    ELSE parts[1] \o sep \o Join(Tail(parts), sep)

\* The first position at which sep occurs in s, 0 when it does not.
FindSep(s, sep) ==
    LET hits == {i \in 1..(Len(s) - Len(sep) + 1) : SubSeq(s, i, i + Len(sep) - 1) = sep}
    IN IF hits = {} THEN 0 ELSE CHOOSE i \in hits : \A j \in hits : i <= j

\* s.split(sep): leftmost, non-overlapping occurrences; empty pieces are kept.
RECURSIVE Split(_, _)
Split(s, sep) ==
    LET i == FindSep(s, sep)
    IN IF i = 0 THEN <<s>>
       ELSE <<SubSeq(s, 1, i - 1)>> \o Split(Drop(s, i + Len(sep) - 1), sep)

\* A slip: the lines are kept in file order.
ReverseNot(s) == s

\* reversed(lines)
RECURSIVE Reverse(_)
Reverse(s) == IF s = <<>> THEN <<>> ELSE Reverse(Tail(s)) \o <<Head(s)>>

DigitChars == <<"0", "1", "2", "3", "4", "5", "6", "7", "8", "9">>
DigitVal(c) == (CHOOSE i \in 1..10 : DigitChars[i] = c) - 1

\* int(val or 0) on a string of decimal digits
RECURSIVE ParseInt(_)
ParseInt(ds) ==
    IF ds = <<>> THEN 0
    ELSE 10 * ParseInt(SubSeq(ds, 1, Len(ds) - 1)) + DigitVal(ds[Len(ds)])

\* str(n) for n >= 0
RECURSIVE Str(_)
Str(n) ==
    IF n < 10 THEN <<DigitChars[n + 1]>>
    ELSE Str(n \div 10) \o <<DigitChars[(n % 10) + 1]>>

\* ------------------------------------------------- chunk store and retrieval
\* The chunk separator of the chunk file.
Sep == <<"\n", "-", "-", "-", "\n">>

\* What process_document_task writes to <doc_id>_chunks.txt.
ChunkFileText(chunks) == Join(chunks, Sep)

\* get_chunks_for_doc of a chunk file
GetChunksForDoc(file) ==
    IF ~file.exists THEN <<>>
    ELSE LET content == Strip(file.content)
         IN IF content = <<>> THEN <<>>
            ELSE SelectSeq(Split(content, Sep), LAMBDA c : Strip(c) # <<>>)

\* Vectors are points on a line; the index holds one per chunk, in order.
Dist(v, q) == (v - q) * (v - q)

\* index.search(q, k): the k nearest positions (0-based) by ascending distance,
\* filled with -1 when the index holds fewer than k vectors; the order among
\* equal distances is the library's.
SearchResults(index, q, k) ==
    LET n == Len(index)
        m == Min(k, n)
        d(p) == Dist(index[p + 1], q)
    IN {I \in [1..k -> -1..(n - 1)] :
          /\ \A j \in 1..m : I[j] >= 0
          /\ \A j \in (m + 1)..k : I[j] = -1
          /\ \A i, j \in 1..m : i < j => I[i] # I[j] /\ d(I[i]) <= d(I[j])
          /\ \A p \in 0..(n - 1) :
                (\A j \in 1..m : I[j] # p) => \A j \in 1..m : d(I[j]) <= d(p)}

\* The bounds check on a returned position.
ValidPos(i, n) == 0 <= i /\ i < n

\* A slip: the lower bound is left out, and a negative position counts from
\* the end of the list.
ContextOfNoLowerBound(chunks, I) ==
    LET n == Len(chunks)
        valid == SelectSeq(I, LAMBDA i : -n <= i /\ i < n)
    IN [j \in 1..Len(valid) |->
          IF valid[j] < 0 THEN chunks[n + valid[j] + 1] ELSE chunks[valid[j] + 1]]

\* [chunks[i] for i in I[0] if 0 <= i < len(chunks)]
ContextOf(chunks, I) ==
    LET valid == SelectSeq(I, LAMBDA i : ValidPos(i, Len(chunks)))
    IN [j \in 1..Len(valid) |-> chunks[valid[j] + 1]]

\* The questions of the runs that ask about the fixtures.
Q1 == <<"q", "1">>
Q2 == <<"q", "2">>
Questions == {Q1, Q2}

\* The model behind HuggingFaceEmbeddings: the vector of a text.
EmbedText(text) == IF text = <<"a">> THEN 1 ELSE IF text = <<"b">> THEN 2 ELSE 3

\* embedder.embed_documents(chunks): one vector per chunk, in order
EmbedDocuments(chunks) == [i \in 1..Len(chunks) |-> EmbedText(chunks[i])]

\* embedder.embed_query(question): the same model
EmbedQuery(question) == EmbedText(question)

\* The pseudo-embedding of _make_query_vector: a random vector seeded with the
\* hash of the question, a fixed function of the text that owes nothing to
\* the model.
FakeVector(question) == IF question = Q1 THEN 0 ELSE 6

\* query_local_llm: a stub built from the question and a preview of the context.
QueryLocalLlm(question, context) ==
    [question |-> question,
     preview |-> [i \in 1..Min(LlmPreviewLen, Len(context)) |->
                    IF context[i] = "\n" THEN " " ELSE context[i]]]

\* ------------------------------------------------------ the document fixtures
\* What the index directory holds at start: a built document (d1, the tests'
\* three-chunk fixture), a chunk file without an index (d2), an index without
\* a chunk file (d3), nothing (d4), an index of four vectors over a chunk file
\* of one chunk (d5), a one-chunk document (d6), an index over a chunk file of
\* whitespace (d7).
Docs == {"d1", "d2", "d3", "d4", "d5", "d6", "d7"}

InitIndexFile ==
    [doc \in Docs |->
        CASE doc = "d1" -> File(<<1, 2, 3>>)
          [] doc = "d3" -> File(<<1, 2>>)
          [] doc = "d5" -> File(<<5, 1, 2, 3>>)
          [] doc = "d6" -> File(<<1>>)
          [] doc = "d7" -> File(<<1, 2>>)
          [] OTHER -> NoFile]

InitChunkFile ==
    [doc \in Docs |->
        CASE doc = "d1" -> File(ChunkFileText(<< <<"a">>, <<"b">>, <<"c">> >>))
          [] doc = "d2" -> File(ChunkFileText(<< <<"a">>, <<"b">> >>))
          [] doc = "d5" -> File(ChunkFileText(<< <<"a">> >>))
          [] doc = "d6" -> File(ChunkFileText(<< <<"a">> >>))
          [] doc = "d7" -> File(<<" ", "\n">>)
          [] OTHER -> NoFile]

\* ------------------------------------------------------------------- state
VARIABLES
    day,        \* the current UTC day, _today_utc()
    limit,      \* FREE_DAILY_QUESTION_LIMIT
    useFake,    \* USE_FAKE_EMBEDDINGS
    histFile,   \* history/<user>/<day>.jsonl: a file of lines
    usageFile,  \* usage/<day>_<user>.count: a file of digits
    cache,      \* _DAILY_CACHE
    issued,     \* how many entry ids uuid4 has produced per (user, day)
    indexFile,  \* <doc_id>.index: a file of vectors
    chunkFile,  \* <doc_id>_chunks.txt: a file of text
    last,       \* the last request and its response
    answered,   \* how many asks were answered with 200 per (user, day)
    \* concurrent runs of _inc_usage on one counter file
    incPc,      \* where each process is in _inc_usage
    incVal,     \* its local count
    incBuf,     \* what it has written and not yet flushed
    lockHolder, \* who holds the flock on the counter file (0: nobody)
    incStart,   \* the counter before the run
    incSeen,    \* what the last _read_usage of the counter returned
    \* the ingestion worker
    ingPc,      \* where process_document_task is
    ingExt,     \* the extension of the uploaded file
    ingChunks,  \* the chunks the splitter returned
    ingVectors, \* their vectors
    \* an ask that runs beside the worker
    rdPc,       \* where the ask is
    rdQ,        \* its question
    rdIndex,    \* the index it loaded
    rdI,        \* the positions the search returned
    rdText,     \* the chunk file as it read it
    rdSaw,      \* where the worker was when the ask looked for the index
    \* the upload endpoint and the task queue
    doc_id_counter,     \* routers/documents.py: doc_id_counter
    fake_documents_db,  \* routers/documents.py: fake_documents_db
    savedFiles,         \* the paths written under uploads/
    sent,               \* the process_document_task messages sent, in order
    taskResults,        \* what the worker's runs returned, in the order of sent
    upPc,               \* where each upload request is
    upReq,              \* its locals
    \* concurrent asks, step by step through append_history_entry
    apPc,       \* where each ask is
    apReq,      \* its locals, with the day each _today_utc() call returned
    histLock,   \* the flock on each history file: exclusive holder, shared holders
    lsPc,       \* where the concurrent listing is
    lsKey       \* the (user, day) file it reads

ledgerVars == <<histFile, usageFile, cache, issued>>
docVars == <<indexFile, chunkFile>>
incVars == <<incPc, incVal, incBuf, lockHolder, incStart, incSeen>>
ingVars == <<ingPc, ingExt, ingChunks, ingVectors>>
rdVars == <<rdPc, rdQ, rdIndex, rdI, rdText, rdSaw>>
procVars == <<incVars, ingVars, rdVars>>
apVars == <<apPc, apReq, histLock, lsPc, lsKey>>
upVars == <<doc_id_counter, fake_documents_db, savedFiles, sent, taskResults,
            upPc, upReq>>
vars == <<day, limit, useFake, apVars, histFile, usageFile, cache, issued, indexFile, chunkFile,
          last, answered, incVars, ingVars, rdVars, upVars>>

Keys == Users \X Days

\* _make_query_vector
MakeQueryVector(question) ==
    IF useFake THEN FakeVector(question) ELSE EmbedQuery(question)

\* ------------------------------------------------------------ usage ledger
\* _read_usage
ReadUsage(file) == IF ~file.exists THEN 0 ELSE ParseInt(Strip(file.content))

\* _inc_usage run alone: read, parse, increment, truncate, write, close
IncUsage(file) == File(Str(ParseInt(Strip(file.content)) + 1))

\* ------------------------------------------------------------- history log
\* json.dumps(entry) + "\n": one line; a line that is no JSON document (torn by
\* a crash) has json = FALSE.
Dumps(entry) == [json |-> TRUE, value |-> entry]
IsJson(line) == line.json
Loads(line) == line.value

\* _read_all_lines
ReadAllLines(file) == IF ~file.exists THEN <<>> ELSE file.content

\* The loop of list_history over the reversed lines; idx counts from 0.
RECURSIVE ListLoop(_, _, _, _, _)
ListLoop(rev, idx, offset, lim, items) ==
    IF idx >= Len(rev) THEN items
    ELSE IF idx < offset THEN ListLoop(rev, idx + 1, offset, lim, items)
    ELSE IF Len(items) >= lim THEN items
    ELSE IF IsJson(rev[idx + 1])
         THEN ListLoop(rev, idx + 1, offset, lim, items \o <<Loads(rev[idx + 1])>>)
         ELSE ListLoop(rev, idx + 1, offset, lim, items)

\* A slip: the total counts the page instead of the file.
ListHistoryTotalOfPage(file, offset, lim) ==
    LET items == ListLoop(Reverse(ReadAllLines(file)), 0, offset, lim, <<>>)
    IN [items |-> items, total |-> Len(items)]

\* list_history: (items, total)
ListHistory(file, offset, lim) ==
    LET lines == ReadAllLines(file)
    IN [items |-> ListLoop(Reverse(lines), 0, offset, lim, <<>>),
        total |-> Len(lines)]

\* A slip: the cache is keyed by the user alone, so it outlives the day.
CountTodayUserKey(u) ==
    Max(Len(ReadAllLines(histFile[<<u, day>>])),
        Max(cache[<<u, 1>>], ReadUsage(usageFile[<<u, day>>])))

\* A slip: the count leaves the history file out.
CountTodayNoFile(u) ==
    Max(cache[<<u, day>>], ReadUsage(usageFile[<<u, day>>]))

\* count_today
CountToday(u) ==
    LET file_count == Len(ReadAllLines(histFile[<<u, day>>]))
        cached == cache[<<u, day>>]
        usage == ReadUsage(usageFile[<<u, day>>])
    IN Max(file_count, Max(cached, usage))

\* A slip in the comparison: the limit itself is still let through.
EnforceDailyLimitOffByOne(used, daily_limit) == used > daily_limit

\* enforce_daily_limit: TRUE when it raises 429
EnforceDailyLimit(used, daily_limit) == used >= daily_limit

\* An append that opens the history file with mode "w" instead of "a".
AppendHistoryEntryTruncating(u, entry) ==
    LET full == [entry EXCEPT !.id = <<u, day, issued[<<u, day>>] + 1>>,
                              !.timestamp = day]
    IN /\ issued' = [issued EXCEPT ![<<u, day>>] = @ + 1]
       /\ histFile' = [histFile EXCEPT ![<<u, day>>] = File(<<Dumps(full)>>)]
       /\ cache' = [cache EXCEPT ![<<u, day>>] = @ + 1]
       /\ usageFile' = [usageFile EXCEPT ![<<u, day>>] = IncUsage(@)]

\* append_history_entry: the line, the cache entry, the usage counter
AppendHistoryEntry(u, entry) ==
    LET full == [entry EXCEPT !.id = <<u, day, issued[<<u, day>>] + 1>>,
                              !.timestamp = day]
    IN /\ issued' = [issued EXCEPT ![<<u, day>>] = @ + 1]
       /\ histFile' = [histFile EXCEPT ![<<u, day>>] =
                          File(@.content \o <<Dumps(full)>>)]
       /\ cache' = [cache EXCEPT ![<<u, day>>] = @ + 1]
       /\ usageFile' = [usageFile EXCEPT ![<<u, day>>] = IncUsage(@)]

\* ------------------------------------------------------------- responses
NoAnswer == [question |-> <<>>, preview |-> <<>>]
NoResp ==
    [op |-> "none", user |-> "", doc |-> "", question |-> <<>>, day |-> 0,
     status |-> 0, dataKind |-> "none", message |-> "", answer |-> NoAnswer,
     context |-> <<>>, indices |-> <<>>, work |-> {},
     items |-> <<>>, total |-> 0, date |-> 0, offset |-> 0, lim |-> 0,
     sawIngest |-> ""]

\* api_response(data, message, status_code); an HTTPException reaches the
\* client through http_exception_handler with data = None.
HttpException(status, detail, work) ==
    [status |-> status, dataKind |-> "null", message |-> detail,
     answer |-> NoAnswer, context |-> <<>>, indices |-> <<>>, work |-> work]

\* ---------------------------------------------------------------- ask
\* A slip in the path: the chunk file is looked for instead of the index file.
IndexMissingByChunks(doc) == ~chunkFile[doc].exists

\* load_faiss_index raises 404 when the index file of doc is absent.
IndexMissing(doc) == ~indexFile[doc].exists

\* A slip in the test: an empty list is not recognised.
NoContextNever(context_chunks) == FALSE

\* "if not context_chunks"
NoContext(context_chunks) == context_chunks = <<>>

Retrieval == {"index", "embed", "search", "chunks"}

\* ask_question after the search returned I and the chunk file was read.
AnswerWith(file, q, I) ==
    LET chunks == GetChunksForDoc(file)
        context_chunks == ContextOf(chunks, I)
        context == Join(context_chunks, <<"\n">>)
    IN IF NoContext(context_chunks)
       THEN [status |-> 404, dataKind |-> "list",
             message |-> "No relevant context found.",
             answer |-> NoAnswer, context |-> <<>>, indices |-> I,
             work |-> {"ledger"} \cup Retrieval]
       ELSE [status |-> 200, dataKind |-> "answer",
             message |-> "Answer generated successfully.",
             answer |-> QueryLocalLlm(q, context),
             context |-> context_chunks, indices |-> I,
             work |-> {"ledger", "llm", "history"} \cup Retrieval]

\* ask_question from get_relevant_context on, for a search result I.
AnswerFrom(doc, q, I) ==
    IF IndexMissing(doc)
    THEN HttpException(404, "Knowledge base not found", {"ledger", "index"})
    ELSE AnswerWith(chunkFile[doc], q, I)

\* A slip that retrieves first and checks the quota afterwards.
AskReplyQuotaLast(u, doc, q, I) ==
    LET r == AnswerFrom(doc, q, I)
    IN IF r.status = 200 /\ CountToday(u) >= limit
       THEN HttpException(429, "Daily question limit reached", r.work \ {"llm", "history"})
       ELSE r

\* What ask_question answers for a search result I, with the collaborators it
\* has called by then (work): the quota gate first, then retrieval.
AskReply(u, doc, q, I) ==
    IF EnforceDailyLimit(CountToday(u), limit)
    THEN HttpException(429, "Daily question limit reached", {"ledger"})
    ELSE AnswerFrom(doc, q, I)

\* The history entry of an answered ask (id and timestamp are set on append).
AskEntry(u, doc, q, r) ==
    [id |-> <<>>, timestamp |-> 0, user_id |-> u, doc_id |-> doc, question |-> q,
     answer |-> r.answer,
     context_preview |-> Take(Join(r.context, <<"\n">>), PreviewLen),
     top_k |-> 3, chunk_indices |-> r.indices]

\* The search results the ask may get from the index of doc.
AskSearches(doc, q) ==
    IF indexFile[doc].exists
    THEN SearchResults(indexFile[doc].content, MakeQueryVector(q), TopK)
    ELSE {<<>>}

AskResp(u, doc, q, r) ==
    [NoResp EXCEPT !.op = "ask", !.user = u, !.doc = doc, !.question = q,
                   !.day = day, !.status = r.status, !.dataKind = r.dataKind,
                   !.message = r.message, !.answer = r.answer,
                   !.context = r.context, !.indices = r.indices,
                   !.work = r.work]

\* A slip that appends the history entry before looking at the outcome.
AskAppendFirst(u, doc, q) ==
    \E I \in AskSearches(doc, q) :
        LET r == AskReply(u, doc, q, I)
        IN /\ last' = AskResp(u, doc, q, r)
           /\ IF r.status # 429
              THEN AppendHistoryEntry(u, AskEntry(u, doc, q, r))
              ELSE UNCHANGED ledgerVars
           /\ answered' = IF r.status = 200
                          THEN [answered EXCEPT ![<<u, day>>] = @ + 1]
                          ELSE answered
           /\ UNCHANGED <<day, limit, useFake, apVars, upVars, docVars, procVars>>

\* POST /rag/ask
Ask(u, doc, q) ==
    \E I \in AskSearches(doc, q) :
        LET r == AskReply(u, doc, q, I)
        IN /\ last' = AskResp(u, doc, q, r)
           /\ IF r.status = 200
              THEN /\ AppendHistoryEntry(u, AskEntry(u, doc, q, r))
                   /\ answered' = [answered EXCEPT ![<<u, day>>] = @ + 1]
              ELSE UNCHANGED <<ledgerVars, answered>>
           /\ UNCHANGED <<day, limit, useFake, apVars, upVars, docVars, procVars>>

\* GET /history; for_date = 0 stands for an omitted date (today)
GetHistory(u, for_date, offset, lim) ==
    LET d == IF for_date = 0 THEN day ELSE for_date
        res == ListHistory(histFile[<<u, d>>], offset, lim)
    IN /\ last' = [NoResp EXCEPT !.op = "list", !.user = u, !.day = day,
                       !.status = 200, !.dataKind = "history",
                       !.message = "History fetched successfully.",
                       !.items = res.items, !.total = res.total, !.date = d,
                       !.offset = offset, !.lim = lim]
       /\ UNCHANGED <<day, limit, useFake, apVars, upVars, ledgerVars, docVars, answered, procVars>>

\* UTC midnight passes.
Tick ==
    /\ day < MaxDay
    /\ day' = day + 1
    /\ last' = NoResp
    /\ UNCHANGED <<limit, useFake, apVars, upVars, ledgerVars, docVars, answered, procVars>>

InitLedger ==
    /\ histFile = [k \in Keys |-> NoFile]
    /\ usageFile = [k \in Keys |-> NoFile]
    /\ cache = [k \in Keys |-> 0]
    /\ issued = [k \in Keys |-> 0]
    /\ answered = [k \in Keys |-> 0]
    /\ last = NoResp

InitDocFiles ==
    /\ indexFile = InitIndexFile
    /\ chunkFile = InitChunkFile

Procs == 1..MaxProcs

\* The locals of an upload request that is not running.
NoUpload == [doc_id |-> 0, filename |-> "", user_id |-> "", large |-> FALSE]

\* routers/documents.py as imported: no document, the counter at 1, nothing
\* sent to the worker.
InitUp ==
    /\ doc_id_counter = 1
    /\ fake_documents_db = <<>>
    /\ savedFiles = {}
    /\ sent = <<>>
    /\ taskResults = <<>>
    /\ upPc = [p \in Procs |-> "idle"]
    /\ upReq = [p \in Procs |-> NoUpload]

MaxAskers == 2
Askers == 1..MaxAskers

\* The locals of an ask that is not running.
NoAsk ==
    [user |-> "", doc |-> "", q |-> <<>>, r |-> HttpException(0, "", {}),
     entry |-> AskEntry("", "", <<>>, HttpException(0, "", {})),
     dayChecked |-> 0, dayStamp |-> 0, dayFile |-> 0, dayCache |-> 0,
     dayUsage |-> 0, cached |-> 0]

\* No ask and no listing is under way and no history file is locked.
InitAp ==
    /\ apPc = [p \in Askers |-> "idle"]
    /\ apReq = [p \in Askers |-> NoAsk]
    /\ histLock = [k \in Keys |-> [ex |-> 0, sh |-> 0]]
    /\ lsPc = "idle"
    /\ lsKey = <<>>

\* No increment, ingestion or concurrent ask is under way.
InitProcs ==
    /\ incPc = [p \in Procs |-> "idle"]
    /\ incVal = [p \in Procs |-> 0]
    /\ incBuf = [p \in Procs |-> <<>>]
    /\ lockHolder = 0
    /\ incStart = 0
    /\ incSeen = 0
    /\ ingPc = "idle"
    /\ ingExt = ""
    /\ ingChunks = <<>>
    /\ ingVectors = <<>>
    /\ rdPc = "idle"
    /\ rdQ = <<>>
    /\ rdIndex = <<>>
    /\ rdI = <<>>
    /\ rdText = NoFile
    /\ rdSaw = ""

\* ------------------------------------------- Spec: asks under the daily quota
\* The documents the quota runs ask about: built, index without chunks, absent.
QuotaDocs == {"d1", "d3", "d4"}

Init ==
    /\ day = 1
    /\ useFake = TRUE
    /\ InitUp
    /\ InitAp
    /\ limit \in 0..MaxLimit
    /\ InitLedger
    /\ InitDocFiles
    /\ InitProcs

Next ==
    \/ \E u \in Users, doc \in QuotaDocs : Ask(u, doc, Q1)
    \/ Tick

Spec == Init /\ [][Next]_vars

\* --------------------------------- SpecHistory: one user's asks and listings
NextHistory ==
    \/ Ask("u1", "d1", Q1)
    \/ \E for_date \in 0..MaxDay, offset \in 0..MaxOffset, lim \in 1..MaxListLimit :
          GetHistory("u1", for_date, offset, lim)
    \/ Tick

SpecHistory == Init /\ [][NextHistory]_vars

\* ------------------------- SpecDocs: asks about every document of the store
InitDocs ==
    /\ day = 1
    /\ useFake = TRUE
    /\ InitUp
    /\ InitAp
    /\ limit = MaxLimit
    /\ InitLedger
    /\ InitDocFiles
    /\ InitProcs

NextDocs == \E doc \in Docs, q \in Questions : Ask("u1", doc, q)

SpecDocs == InitDocs /\ [][NextDocs]_vars

\* ------------- SpecLoss: asks of one user while sources of the count are lost
\* Which sources of the count of key k still hold every answered ask.
HistIntact(k) == Len(ReadAllLines(histFile[k])) = answered[k]
CacheIntact(k) == cache[k] = answered[k]
UsageIntact(k) == ReadUsage(usageFile[k]) = answered[k]

\* The API process restarts: _DAILY_CACHE is empty again, and so are the
\* document store and the id counter of routers/documents.py. The files stay.
Restart ==
    /\ \A k \in Keys : HistIntact(k) \/ UsageIntact(k)
    /\ \E k \in Keys : cache[k] # 0
    /\ cache' = [k \in Keys |-> 0]
    /\ doc_id_counter' = 1
    /\ fake_documents_db' = <<>>
    /\ upPc' = [p \in Procs |-> "idle"]
    /\ upReq' = [p \in Procs |-> NoUpload]
    /\ last' = NoResp
    /\ UNCHANGED <<day, limit, useFake, apVars, histFile, usageFile, issued, docVars,
                   answered, procVars, savedFiles, sent, taskResults>>

\* The usage counter file of key k is removed or made unreadable: _read_usage
\* returns 0 for both.
LoseUsage(k) ==
    /\ usageFile[k].exists
    /\ HistIntact(k) \/ CacheIntact(k)
    /\ usageFile' = [usageFile EXCEPT ![k] = NoFile]
    /\ last' = NoResp
    /\ UNCHANGED <<day, limit, useFake, apVars, upVars, histFile, cache, issued, docVars, answered,
                   procVars>>

\* The history file of key k is removed.
LoseHistory(k) ==
    /\ histFile[k].exists
    /\ CacheIntact(k) \/ UsageIntact(k)
    /\ histFile' = [histFile EXCEPT ![k] = NoFile]
    /\ last' = NoResp
    /\ UNCHANGED <<day, limit, useFake, apVars, upVars, usageFile, cache, issued, docVars, answered,
                   procVars>>

LossUser == "u1"

NextLoss ==
    \/ \E doc \in QuotaDocs : Ask(LossUser, doc, Q1)
    \/ Restart
    \/ \E d \in Days : LoseUsage(<<LossUser, d>>)
    \/ \E d \in Days : LoseHistory(<<LossUser, d>>)

SpecLoss == Init /\ [][NextLoss]_vars

\* ------------------- SpecInc: processes incrementing one usage counter file
\* The (user, day) whose counter file the processes share.
CounterKey == <<"u1", 1>>

SetCounterFile(f) == usageFile' = [usageFile EXCEPT ![CounterKey] = f]

\* Process p moves on in _inc_usage; nothing but the counter file, the lock and
\* the process's own locals is touched.
IncStep(p, from, to) ==
    /\ incPc[p] = from
    /\ incPc' = [incPc EXCEPT ![p] = to]
    /\ UNCHANGED <<day, limit, useFake, apVars, upVars, histFile, cache, issued, docVars, last,
                   answered, incStart, incSeen, ingVars, rdVars>>

\* open(path, "a+"): creates the file when it is absent
IncOpen(p) ==
    /\ IncStep(p, "idle", "opened")
    /\ SetCounterFile(IF usageFile[CounterKey].exists
                      THEN usageFile[CounterKey] ELSE File(<<>>))
    /\ UNCHANGED <<incVal, incBuf, lockHolder>>

\* fcntl.flock(f.fileno(), fcntl.LOCK_EX): waits until nobody holds the lock
IncLock(p) ==
    /\ IncStep(p, "opened", "locked")
    /\ lockHolder = 0
    /\ lockHolder' = p
    /\ UNCHANGED <<usageFile, incVal, incBuf>>

\* f.seek(0); val = f.read().strip(); count = int(val or 0); count += 1
IncRead(p) ==
    /\ IncStep(p, "locked", "read")
    /\ incVal' = [incVal EXCEPT ![p] = ParseInt(Strip(usageFile[CounterKey].content)) + 1]
    /\ UNCHANGED <<usageFile, incBuf, lockHolder>>

\* f.seek(0); f.truncate(0): the file is cut at once
IncTruncate(p) ==
    /\ IncStep(p, "read", "truncated")
    /\ SetCounterFile(File(<<>>))
    /\ UNCHANGED <<incVal, incBuf, lockHolder>>

\* f.write(str(count)): the text stays in the file object's buffer
IncWrite(p) ==
    /\ IncStep(p, "truncated", "written")
    /\ incBuf' = [incBuf EXCEPT ![p] = Str(incVal[p])]
    /\ UNCHANGED <<usageFile, incVal, lockHolder>>

\* fcntl.flock(f.fileno(), fcntl.LOCK_UN)
IncUnlock(p) ==
    /\ IncStep(p, "written", "unlocked")
    /\ lockHolder' = 0
    /\ UNCHANGED <<usageFile, incVal, incBuf>>

\* The end of the with block closes the file: the buffer is flushed, and a
\* file opened for appending writes at its end.
IncClose(p) ==
    /\ IncStep(p, "unlocked", "done")
    /\ SetCounterFile(File(usageFile[CounterKey].content \o incBuf[p]))
    /\ incBuf' = [incBuf EXCEPT ![p] = <<>>]
    /\ UNCHANGED <<incVal, lockHolder>>

\* The process dies inside _inc_usage (it is killed, or the host goes down):
\* the kernel closes its descriptor, which drops its lock, and what it had
\* written to the file object and not flushed is gone.
IncCrash(p) ==
    /\ incPc[p] \in {"locked", "read", "truncated", "written", "unlocked"}
    /\ incPc' = [incPc EXCEPT ![p] = "crashed"]
    /\ incBuf' = [incBuf EXCEPT ![p] = <<>>]
    /\ lockHolder' = IF lockHolder = p THEN 0 ELSE lockHolder
    /\ UNCHANGED <<day, limit, useFake, apVars, upVars, histFile, usageFile, cache, issued, docVars, last,
                   answered, incVal, incStart, incSeen, ingVars, rdVars>>

\* _read_usage by any process: it opens the file for reading and takes no lock
IncReadUsage ==
    /\ incSeen' = ReadUsage(usageFile[CounterKey])
    /\ UNCHANGED <<day, limit, useFake, apVars, upVars, ledgerVars, docVars, last, answered, incPc, incVal,
                   incBuf, lockHolder, incStart, ingVars, rdVars>>

\* The counter file at start: absent, or a count written by an earlier run.
StartCounterFiles == {NoFile} \cup {File(Str(n)) : n \in 1..MaxStartCount}

InitInc ==
    /\ day = 1
    /\ useFake = TRUE
    /\ InitUp
    /\ InitAp
    /\ limit = MaxLimit
    /\ \E f \in StartCounterFiles :
          /\ usageFile = [k \in Keys |-> IF k = CounterKey THEN f ELSE NoFile]
          /\ incStart = ReadUsage(f)
          /\ incSeen = ReadUsage(f)
    /\ histFile = [k \in Keys |-> NoFile]
    /\ cache = [k \in Keys |-> 0]
    /\ issued = [k \in Keys |-> 0]
    /\ answered = [k \in Keys |-> 0]
    /\ last = NoResp
    /\ InitDocFiles
    /\ incPc = [p \in Procs |-> "idle"]
    /\ incVal = [p \in Procs |-> 0]
    /\ incBuf = [p \in Procs |-> <<>>]
    /\ lockHolder = 0
    /\ ingPc = "idle" /\ ingExt = "" /\ ingChunks = <<>> /\ ingVectors = <<>>
    /\ rdPc = "idle" /\ rdQ = <<>> /\ rdIndex = <<>> /\ rdI = <<>>
    /\ rdText = NoFile /\ rdSaw = ""

NextInc ==
    \/ \E p \in Procs : IncOpen(p)
    \/ \E p \in Procs : IncLock(p)
    \/ \E p \in Procs : IncRead(p)
    \/ \E p \in Procs : IncTruncate(p)
    \/ \E p \in Procs : IncWrite(p)
    \/ \E p \in Procs : IncUnlock(p)
    \/ \E p \in Procs : IncClose(p)
    \/ \E p \in Procs : IncCrash(p)
    \/ IncReadUsage

SpecInc == InitInc /\ [][NextInc]_vars

\* -------------- SpecIngest: the ingestion worker beside asks about its document
\* The document of the upload: no file of it exists before the ingestion.
IngestDoc == "d4"
IngestUser == "u1"

\* FREE_DAILY_QUESTION_LIMIT of the runs beside the worker
IngestLimit == 1

\* Chunks the splitter may return: plain text, and text that holds a line of
\* three dashes (a Markdown rule) between two lines.
ChunkTexts == { <<"a">>, <<"b">>, <<"a", "\n", "-", "-", "-", "\n", "b">> }
ChunkLists == UNION {[1..n -> ChunkTexts] : n \in 0..MaxChunks}

\* The extensions of the uploaded file: one that parse_document reads, one
\* that it refuses.
Extensions == {"md", "exe"}

\* A slip: every extension is taken for text.
SupportedExtAny(ext) == TRUE

\* parse_document: the extensions it reads; any other raises ValueError
SupportedExt(ext) == ext \in {"pdf", "txt", "md"}

\* The worker moves on; the ledger, the clock and the asks are not touched.
IngStep(from, to) ==
    /\ ingPc = from
    /\ ingPc' = to
    /\ UNCHANGED <<day, limit, useFake, apVars, upVars, ledgerVars, last, answered, incVars, rdVars,
                   ingExt, ingChunks>>

\* parse_document and splitter.split_text; an unsupported extension raises
IngParse ==
    /\ IngStep("queued", IF SupportedExt(ingExt) THEN "chunked" ELSE "failed")
    /\ UNCHANGED <<docVars, ingVectors>>

\* open(chunks_path, "w"): the chunk file is created empty
IngOpenChunks ==
    /\ IngStep("chunked", "chunks_open")
    /\ chunkFile' = [chunkFile EXCEPT ![IngestDoc] = File(<<>>)]
    /\ UNCHANGED <<indexFile, ingVectors>>

\* f.write("\n---\n".join(chunks)): the text reaches the file in one or more
\* writes
IngWriteChunks(n) ==
    /\ IngStep("chunks_open", "chunks_open")
    /\ n > Len(chunkFile[IngestDoc].content)
    /\ n <= Len(ChunkFileText(ingChunks))
    /\ chunkFile' = [chunkFile EXCEPT ![IngestDoc] =
                        File(Take(ChunkFileText(ingChunks), n))]
    /\ UNCHANGED <<indexFile, ingVectors>>

\* The end of the with block: everything is written and the file is closed.
IngCloseChunks ==
    /\ IngStep("chunks_open", "chunks_closed")
    /\ chunkFile[IngestDoc].content = ChunkFileText(ingChunks)
    /\ UNCHANGED <<docVars, ingVectors>>

\* "if not chunks: raise ValueError"
IngCheckChunks ==
    /\ IngStep("chunks_closed", IF ingChunks = <<>> THEN "failed" ELSE "embedding")
    /\ UNCHANGED <<docVars, ingVectors>>

\* embedder.embed_documents(chunks)
IngEmbed ==
    /\ IngStep("embedding", "embedded")
    /\ ingVectors' = EmbedDocuments(ingChunks)
    /\ UNCHANGED docVars

\* The embedding provider raises.
IngEmbedFail ==
    /\ IngStep("embedding", "failed")
    /\ UNCHANGED <<docVars, ingVectors>>

\* faiss.write_index opens the index file and starts writing
IngCreateIndex ==
    /\ IngStep("embedded", "index_open")
    /\ indexFile' = [indexFile EXCEPT ![IngestDoc] = TornFile]
    /\ UNCHANGED <<chunkFile, ingVectors>>

\* faiss.write_index has written the whole index; the task returns True
IngFinishIndex ==
    /\ IngStep("index_open", "done")
    /\ indexFile' = [indexFile EXCEPT ![IngestDoc] = File(ingVectors)]
    /\ UNCHANGED <<chunkFile, ingVectors>>

\* faiss.write_index raises while it writes (an I/O error): the except clause
\* logs and returns False, and the file write_index had opened stays behind
IngIndexFail ==
    /\ IngStep("index_open", "failed")
    /\ UNCHANGED <<docVars, ingVectors>>

\* The ask moves on; the worker and the files of the document are not touched.
RdStep(from, to) ==
    /\ rdPc = from
    /\ rdPc' = to
    /\ UNCHANGED <<day, limit, useFake, apVars, upVars, docVars, incVars, ingVars>>

RdResp(r) == [AskResp(IngestUser, IngestDoc, rdQ, r) EXCEPT !.sawIngest = rdSaw]

\* ask_question starts: enforce_daily_limit
RdStart(q) ==
    /\ IF EnforceDailyLimit(CountToday(IngestUser), limit)
       THEN /\ RdStep("idle", "idle")
            /\ last' = AskResp(IngestUser, IngestDoc, q,
                               HttpException(429, "Daily question limit reached", {"ledger"}))
            /\ UNCHANGED <<rdQ, rdSaw>>
       ELSE /\ RdStep("idle", "load")
            /\ rdQ' = q
            /\ rdSaw' = ""
            /\ UNCHANGED last
    /\ UNCHANGED <<ledgerVars, answered, rdIndex, rdI, rdText>>

\* load_faiss_index: os.path.exists(faiss_path)
RdCheckIndex ==
    /\ rdSaw' = ingPc
    /\ IF IndexMissing(IngestDoc)
       THEN /\ RdStep("load", "idle")
            /\ last' = [AskResp(IngestUser, IngestDoc, rdQ,
                                HttpException(404, "Knowledge base not found",
                                              {"ledger", "index"}))
                          EXCEPT !.sawIngest = ingPc]
       ELSE /\ RdStep("load", "read_index")
            /\ UNCHANGED last
    /\ UNCHANGED <<ledgerVars, answered, rdQ, rdIndex, rdI, rdText>>

\* load_faiss_index: faiss.read_index(faiss_path); an index file that is not
\* whole raises, which the generic handler answers with 500
RdReadIndex ==
    /\ IF indexFile[IngestDoc].torn
       THEN /\ RdStep("read_index", "idle")
            /\ last' = RdResp(HttpException(500, "Internal server error",
                                            {"ledger", "index"}))
            /\ UNCHANGED rdIndex
       ELSE /\ RdStep("read_index", "search")
            /\ rdIndex' = indexFile[IngestDoc].content
            /\ UNCHANGED last
    /\ UNCHANGED <<ledgerVars, answered, rdQ, rdI, rdText, rdSaw>>

\* _make_query_vector and index.search
RdSearch ==
    /\ RdStep("search", "chunks")
    /\ rdI' \in SearchResults(rdIndex, MakeQueryVector(rdQ), TopK)
    /\ UNCHANGED <<ledgerVars, answered, last, rdQ, rdIndex, rdText, rdSaw>>

\* get_chunks_for_doc reads the chunk file
RdReadChunks ==
    /\ RdStep("chunks", "respond")
    /\ rdText' = chunkFile[IngestDoc]
    /\ UNCHANGED <<ledgerVars, answered, last, rdQ, rdIndex, rdI, rdSaw>>

\* The rest of ask_question: the context, the answer, the history entry.
RdRespond ==
    LET r == AnswerWith(rdText, rdQ, rdI)
    IN /\ RdStep("respond", "idle")
       /\ last' = RdResp(r)
       /\ IF r.status = 200
          THEN /\ AppendHistoryEntry(IngestUser, AskEntry(IngestUser, IngestDoc, rdQ, r))
               /\ answered' = [answered EXCEPT ![<<IngestUser, day>>] = @ + 1]
          ELSE UNCHANGED <<ledgerVars, answered>>
       /\ UNCHANGED <<rdQ, rdIndex, rdI, rdText, rdSaw>>

InitIngest ==
    /\ day = 1
    /\ useFake = TRUE
    /\ InitUp
    /\ InitAp
    /\ limit = IngestLimit
    /\ InitLedger
    /\ InitDocFiles
    /\ incPc = [p \in Procs |-> "idle"]
    /\ incVal = [p \in Procs |-> 0]
    /\ incBuf = [p \in Procs |-> <<>>]
    /\ lockHolder = 0
    /\ incStart = 0
    /\ incSeen = 0
    /\ ingPc = "queued"
    /\ ingExt \in Extensions
    /\ ingChunks \in ChunkLists
    /\ ingVectors = <<>>
    /\ rdPc = "idle" /\ rdQ = <<>> /\ rdIndex = <<>> /\ rdI = <<>>
    /\ rdText = NoFile /\ rdSaw = ""

NextIngest ==
    \/ IngParse
    \/ IngOpenChunks
    \/ \E n \in 1..Len(ChunkFileText(ingChunks)) : IngWriteChunks(n)
    \/ IngCloseChunks
    \/ IngCheckChunks
    \/ IngEmbed
    \/ IngEmbedFail
    \/ IngCreateIndex
    \/ IngFinishIndex
    \/ IngIndexFail
    \/ \E q \in Questions : RdStart(q)
    \/ RdCheckIndex
    \/ RdReadIndex
    \/ RdSearch
    \/ RdReadChunks
    \/ RdRespond

SpecIngest == InitIngest /\ [][NextIngest]_vars

\* ---------- SpecSelf: an upload is ingested and asked about its own chunk texts
MaxSelfChunks == 4

\* The chunks of the upload, and the questions: the text of a chunk.
SelfTexts == { <<"a">>, <<"b">> }
SelfChunkLists == UNION {[1..n -> SelfTexts] : n \in 1..MaxSelfChunks}

InitSelf ==
    /\ day = 1
    /\ useFake \in BOOLEAN
    /\ InitUp
    /\ InitAp
    /\ limit = IngestLimit
    /\ InitLedger
    /\ InitDocFiles
    /\ incPc = [p \in Procs |-> "idle"]
    /\ incVal = [p \in Procs |-> 0]
    /\ incBuf = [p \in Procs |-> <<>>]
    /\ lockHolder = 0
    /\ incStart = 0
    /\ incSeen = 0
    /\ ingPc = "queued"
    /\ ingExt = "md"
    /\ ingChunks \in SelfChunkLists
    /\ ingVectors = <<>>
    /\ rdPc = "idle" /\ rdQ = <<>> /\ rdIndex = <<>> /\ rdI = <<>>
    /\ rdText = NoFile /\ rdSaw = ""

NextSelf ==
    \/ IngParse
    \/ IngOpenChunks
    \/ \E n \in 1..Len(ChunkFileText(ingChunks)) : IngWriteChunks(n)
    \/ IngCloseChunks
    \/ IngCheckChunks
    \/ IngEmbed
    \/ IngEmbedFail
    \/ IngCreateIndex
    \/ IngFinishIndex
    \/ IngIndexFail
    \/ \E q \in SelfTexts : RdStart(q)
    \/ RdCheckIndex
    \/ RdReadIndex
    \/ RdSearch
    \/ RdReadChunks
    \/ RdRespond

SpecSelf == InitSelf /\ [][NextSelf]_vars

\* ------------- SpecUpload: upload requests, and the worker that runs their tasks
MaxUploads == 2

\* What a request brings: the bearer token, the file name, the content type
\* (none, an allowed one, another) and whether the content is larger than
\* MAX_UPLOAD_MB.
Tokens == {"", "bad", "token-u1"}
Filenames == {"a.txt", "a.docx"}
ContentTypes == {"", "text/plain", "image/png"}

\* get_current_user_id: the user of a token, "" when it raises 401
UserOfToken(token) == IF token = "token-u1" THEN "u1" ELSE ""

\* filename.split(".")[-1].lower()
ExtOf(filename) == IF filename = "a.txt" THEN "txt" ELSE "docx"

SUPPORTED_FORMATS == {"pdf", "txt", "md"}
AllowedMimes == {"application/pdf", "text/plain", "text/markdown"}

\* validate_file_upload: "" when it passes, else the detail of its 400
ValidateFileUpload(filename, content_type) ==
    IF ExtOf(filename) \notin SUPPORTED_FORMATS THEN "Unsupported file format"
    ELSE IF content_type # "" /\ content_type \notin AllowedMimes
         THEN "Unsupported MIME type"
         ELSE ""

\* f"uploads/{doc_id}_{file.filename}"
SavePath(doc_id, filename) == <<doc_id, filename>>

\* The files of document doc_id in the index directory.
DocNames == <<"d1", "d2", "d3", "d4", "d5", "d6", "d7">>
DocKey(doc_id) == DocNames[doc_id]

\* The response of the upload endpoint.
UploadResp(u, status, message, data) ==
    [NoResp EXCEPT !.op = "upload", !.user = u, !.day = day, !.status = status,
                   !.dataKind = IF data = <<>> THEN "null" ELSE "document",
                   !.message = message, !.items = data]

\* fake_documents_db[doc_id] = {...}
PutDocument(db, doc_id, rec) ==
    [i \in DOMAIN db \cup {doc_id} |-> IF i = doc_id THEN rec ELSE db[i]]

\* The request only changes the state of the upload endpoint.
UpFrame ==
    UNCHANGED <<day, limit, useFake, apVars, ledgerVars, docVars, answered, procVars,
                taskResults>>

\* upload_document up to "await file.read()": the bearer dependency, the
\* validation of name and content type, the document id
UpStart(p, token, filename, content_type, large) ==
    /\ upPc[p] = "idle"
    /\ doc_id_counter <= MaxUploads
    /\ UpFrame
    /\ UNCHANGED <<fake_documents_db, savedFiles, sent>>
    /\ LET u == UserOfToken(token)
           detail == ValidateFileUpload(filename, content_type)
       IN IF u = ""
          THEN /\ last' = UploadResp("", 401, IF token = ""
                                              THEN "Missing Authorization header"
                                              ELSE "Invalid token", <<>>)
               /\ UNCHANGED <<doc_id_counter, upPc, upReq>>
          ELSE IF detail # ""
          THEN /\ last' = UploadResp(u, 400, detail, <<>>)
               /\ UNCHANGED <<doc_id_counter, upPc, upReq>>
          ELSE /\ upReq' = [upReq EXCEPT ![p] =
                               [doc_id |-> doc_id_counter, filename |-> filename,
                                user_id |-> u, large |-> large]]
               /\ doc_id_counter' = doc_id_counter + 1
               /\ upPc' = [upPc EXCEPT ![p] = "reading"]
               /\ UNCHANGED last

\* A slip: the file is written before its size is looked at.
UpFinishSaveFirst(p) ==
    LET r == upReq[p]
        doc == [id |-> r.doc_id, filename |-> r.filename, owner_id |-> r.user_id,
                status |-> "pending", error |-> "None"]
    IN /\ upPc[p] = "reading"
       /\ UpFrame
       /\ upPc' = [upPc EXCEPT ![p] = "idle"]
       /\ upReq' = [upReq EXCEPT ![p] = NoUpload]
       /\ UNCHANGED doc_id_counter
       /\ savedFiles' = savedFiles \cup {SavePath(r.doc_id, r.filename)}
       /\ IF r.large
          THEN /\ last' = UploadResp(r.user_id, 400, "File too large", <<>>)
               /\ UNCHANGED <<fake_documents_db, sent>>
          ELSE /\ fake_documents_db' = PutDocument(fake_documents_db, r.doc_id, doc)
               /\ sent' = Append(sent, [doc_id |-> r.doc_id,
                                        file_path |-> SavePath(r.doc_id, r.filename)])
               /\ last' = UploadResp(r.user_id, 201,
                                     "File uploaded successfully. Embedding job triggered.",
                                     <<doc>>)

\* upload_document after the read: the size check, the file, the document
\* record, the task, the response
UpFinish(p) ==
    LET r == upReq[p]
        doc == [id |-> r.doc_id, filename |-> r.filename, owner_id |-> r.user_id,
                status |-> "pending", error |-> "None"]
    IN /\ upPc[p] = "reading"
       /\ UpFrame
       /\ upPc' = [upPc EXCEPT ![p] = "idle"]
       /\ upReq' = [upReq EXCEPT ![p] = NoUpload]
       /\ UNCHANGED doc_id_counter
       /\ IF r.large
          THEN /\ last' = UploadResp(r.user_id, 400, "File too large", <<>>)
               /\ UNCHANGED <<fake_documents_db, savedFiles, sent>>
          ELSE /\ savedFiles' = savedFiles \cup {SavePath(r.doc_id, r.filename)}
               /\ fake_documents_db' = PutDocument(fake_documents_db, r.doc_id, doc)
               /\ sent' = Append(sent, [doc_id |-> r.doc_id,
                                        file_path |-> SavePath(r.doc_id, r.filename)])
               /\ last' = UploadResp(r.user_id, 201,
                                     "File uploaded successfully. Embedding job triggered.",
                                     <<doc>>)

\* What the splitter returns for the uploaded text, and where a run may fail:
\* nowhere, in the embedding provider, in the index write.
TaskChunkLists == { <<>>, << <<"a">> >> }
TaskFaults == {"none", "embed", "index"}

\* The worker takes the next message and runs process_document_task(doc_id,
\* file_path) from its first line to its return. The task reads and writes
\* files only: fake_documents_db lives in the API process.
WorkerRun(chunks, fault) ==
    LET msg == sent[Len(taskResults) + 1]
        doc == DocKey(msg.doc_id)
        ext == ExtOf(msg.file_path[2])
        embedded == SupportedExt(ext) /\ chunks # <<>> /\ fault # "embed"
    IN /\ Len(taskResults) < Len(sent)
       /\ taskResults' = Append(taskResults, embedded /\ fault = "none")
       /\ chunkFile' = IF SupportedExt(ext)
                       THEN [chunkFile EXCEPT ![doc] = File(ChunkFileText(chunks))]
                       ELSE chunkFile
       /\ indexFile' = IF ~embedded THEN indexFile
                       ELSE IF fault = "index"
                            THEN [indexFile EXCEPT ![doc] = TornFile]
                            ELSE [indexFile EXCEPT ![doc] = File(EmbedDocuments(chunks))]
       /\ UNCHANGED <<day, limit, useFake, apVars, ledgerVars, last, answered, procVars,
                      doc_id_counter, fake_documents_db, savedFiles, sent, upPc,
                      upReq>>

\* The index directory is empty when the API starts.
InitUpload ==
    /\ day = 1
    /\ useFake = FALSE
    /\ limit = MaxLimit
    /\ InitLedger
    /\ indexFile = [doc \in Docs |-> NoFile]
    /\ chunkFile = [doc \in Docs |-> NoFile]
    /\ InitProcs
    /\ InitUp
    /\ InitAp

NextUpload ==
    \/ \E p \in Procs, token \in Tokens, filename \in Filenames,
          content_type \in ContentTypes, large \in BOOLEAN :
          UpStart(p, token, filename, content_type, large)
    \/ \E p \in Procs : UpFinish(p)
    \/ \E chunks \in TaskChunkLists, fault \in TaskFaults : WorkerRun(chunks, fault)

SpecUpload == InitUpload /\ [][NextUpload]_vars

\* ------------- SpecPages: listings of a history file with lines of any kind
MaxLines == 3

\* The i-th line of the file: the record of an answered ask, or what a crash
\* in the middle of the write left of it (no JSON document).
PageLine(i, whole) ==
    [json |-> whole,
     value |-> [AskEntry("u1", "d1", Q1, AnswerWith(InitChunkFile["d1"], Q1, <<0, 1, 2>>))
                  EXCEPT !.id = <<"u1", 1, i>>, !.timestamp = 1]]

PageFiles ==
    {NoFile} \cup
    UNION {{File([i \in 1..n |-> PageLine(i, whole[i])]) : whole \in [1..n -> BOOLEAN]}
             : n \in 1..MaxLines}

InitPages ==
    /\ day = 1
    /\ useFake = TRUE
    /\ InitUp
    /\ InitAp
    /\ limit = MaxLimit
    /\ histFile \in {[k \in Keys |-> IF k = <<"u1", 1>> THEN f ELSE NoFile] :
                        f \in PageFiles}
    /\ usageFile = [k \in Keys |-> NoFile]
    /\ cache = [k \in Keys |-> 0]
    /\ issued = [k \in Keys |-> 0]
    /\ answered = [k \in Keys |-> 0]
    /\ last = NoResp
    /\ InitDocFiles
    /\ InitProcs

NextPages ==
    \E for_date \in 0..MaxDay, offset \in 0..MaxOffset, lim \in 1..MaxListLimit :
        GetHistory("u1", for_date, offset, lim)

SpecPages == InitPages /\ [][NextPages]_vars

\* ------ SpecAppend: concurrent asks, step by step, a listing and the clock
\* ask_question is a plain def: the server runs each request in a worker
\* thread, so the asks of one process interleave between any two statements.
ApFrame == UNCHANGED <<useFake, limit, upVars, docVars, procVars, lsPc, lsKey>>

AppendUser == "u1"

\* FREE_DAILY_QUESTION_LIMIT of the concurrent runs
AppendLimit == 1

InitAppend ==
    /\ day = 1
    /\ useFake = TRUE
    /\ InitUp
    /\ InitAp
    /\ limit = AppendLimit
    /\ InitLedger
    /\ InitDocFiles
    /\ InitProcs

\* ask_question up to the append: the quota gate, retrieval and the answer.
\* A rejected ask is answered at once.
AskStart(p, u, doc, q) ==
    /\ apPc[p] = "idle"
    /\ \E I \in AskSearches(doc, q) :
          LET r == AskReply(u, doc, q, I)
          IN IF r.status = 200
             THEN /\ apPc' = [apPc EXCEPT ![p] = "stamp"]
                  /\ apReq' = [apReq EXCEPT ![p] =
                                  [NoAsk EXCEPT !.user = u, !.doc = doc, !.q = q,
                                                !.r = r, !.entry = AskEntry(u, doc, q, r),
                                                !.dayChecked = day]]
                  /\ UNCHANGED last
             ELSE /\ last' = AskResp(u, doc, q, r)
                  /\ UNCHANGED <<apPc, apReq>>
    /\ UNCHANGED <<day, ledgerVars, answered, histLock>>
    /\ ApFrame

\* append_history_entry: the id and the timestamp, datetime.utcnow()
ApStamp(p) ==
    /\ apPc[p] = "stamp"
    /\ LET k == <<apReq[p].user, day>>
       IN /\ issued' = [issued EXCEPT ![k] = @ + 1]
          /\ apReq' = [apReq EXCEPT ![p].dayStamp = day,
                                    ![p].entry.id = <<apReq[p].user, day, issued[k] + 1>>,
                                    ![p].entry.timestamp = day]
    /\ apPc' = [apPc EXCEPT ![p] = "open"]
    /\ UNCHANGED <<day, histFile, usageFile, cache, answered, last, histLock>>
    /\ ApFrame

\* get_history_file(user_id, _today_utc()) and open(filepath, "a"), which
\* creates the file when it is absent
ApOpen(p) ==
    /\ apPc[p] = "open"
    /\ apReq' = [apReq EXCEPT ![p].dayFile = day]
    /\ histFile' = [histFile EXCEPT ![<<apReq[p].user, day>>] = File(@.content)]
    /\ apPc' = [apPc EXCEPT ![p] = "lock"]
    /\ UNCHANGED <<day, usageFile, cache, issued, answered, last, histLock>>
    /\ ApFrame

ApKey(p) == <<apReq[p].user, apReq[p].dayFile>>

\* A slip: one lock for all history files.
LockFreeGlobal(k) == \A k2 \in Keys : histLock[k2].ex = 0 /\ histLock[k2].sh = 0

\* flock grants LOCK_EX on a file nobody holds a lock on.
LockFree(k) == histLock[k].ex = 0 /\ histLock[k].sh = 0

\* flock(LOCK_EX) and f.write(line): the line goes to the file object's buffer
ApLock(p) ==
    /\ apPc[p] = "lock"
    /\ LockFree(ApKey(p))
    /\ histLock' = [histLock EXCEPT ![ApKey(p)].ex = p]
    /\ apPc' = [apPc EXCEPT ![p] = "unlock"]
    /\ UNCHANGED <<day, ledgerVars, answered, last, apReq>>
    /\ ApFrame

\* flock(LOCK_UN), still inside the with block
ApUnlock(p) ==
    /\ apPc[p] = "unlock"
    /\ histLock' = [histLock EXCEPT ![ApKey(p)].ex = 0]
    /\ apPc' = [apPc EXCEPT ![p] = "close"]
    /\ UNCHANGED <<day, ledgerVars, answered, last, apReq>>
    /\ ApFrame

\* the with block ends: close flushes the buffer, one write in append mode
ApClose(p) ==
    /\ apPc[p] = "close"
    /\ histFile' = [histFile EXCEPT ![ApKey(p)] =
                       File(@.content \o <<Dumps(apReq[p].entry)>>)]
    /\ apPc' = [apPc EXCEPT ![p] = "cacheGet"]
    /\ UNCHANGED <<day, usageFile, cache, issued, answered, last, histLock, apReq>>
    /\ ApFrame

\* key = (user_id, _today_utc()) and _DAILY_CACHE.get(key, 0)
ApCacheGet(p) ==
    /\ apPc[p] = "cacheGet"
    /\ apReq' = [apReq EXCEPT ![p].dayCache = day,
                              ![p].cached = cache[<<apReq[p].user, day>>]]
    /\ apPc' = [apPc EXCEPT ![p] = "cacheSet"]
    /\ UNCHANGED <<day, ledgerVars, answered, last, histLock>>
    /\ ApFrame

\* _DAILY_CACHE[key] = ... + 1
ApCacheSet(p) ==
    /\ apPc[p] = "cacheSet"
    /\ cache' = [cache EXCEPT ![<<apReq[p].user, apReq[p].dayCache>>] =
                    apReq[p].cached + 1]
    /\ apPc' = [apPc EXCEPT ![p] = "inc"]
    /\ UNCHANGED <<day, histFile, usageFile, issued, answered, last, histLock, apReq>>
    /\ ApFrame

\* _inc_usage(user_id, _today_utc()), as one step (SpecInc takes it apart)
ApInc(p) ==
    /\ apPc[p] = "inc"
    /\ apReq' = [apReq EXCEPT ![p].dayUsage = day]
    /\ usageFile' = [usageFile EXCEPT ![<<apReq[p].user, day>>] = IncUsage(@)]
    /\ apPc' = [apPc EXCEPT ![p] = "done"]
    /\ UNCHANGED <<day, histFile, cache, issued, answered, last, histLock>>
    /\ ApFrame

\* ask_question returns the 200 response
AskRespond(p) ==
    /\ apPc[p] = "done"
    /\ last' = [AskResp(apReq[p].user, apReq[p].doc, apReq[p].q, apReq[p].r)
                   EXCEPT !.day = apReq[p].dayChecked]
    /\ answered' = [answered EXCEPT ![<<apReq[p].user, apReq[p].dayChecked>>] = @ + 1]
    /\ apPc' = [apPc EXCEPT ![p] = "idle"]
    /\ apReq' = [apReq EXCEPT ![p] = NoAsk]
    /\ UNCHANGED <<day, ledgerVars, histLock>>
    /\ ApFrame

\* _read_all_lines of an existing file: open and flock(LOCK_SH)
LsLock(u, d) ==
    /\ lsPc = "idle"
    /\ histFile[<<u, d>>].exists
    /\ histLock[<<u, d>>].ex = 0
    /\ histLock' = [histLock EXCEPT ![<<u, d>>].sh = 1]
    /\ lsPc' = "locked"
    /\ lsKey' = <<u, d>>
    /\ UNCHANGED last
    /\ UNCHANGED <<day, useFake, limit, upVars, ledgerVars, docVars, answered,
                   procVars, apPc, apReq>>

\* f.readlines(), flock(LOCK_UN) and the rest of list_history
LsRead(offset, lim) ==
    /\ lsPc = "locked"
    /\ LET res == ListHistory(histFile[lsKey], offset, lim)
       IN last' = [NoResp EXCEPT !.op = "list", !.user = lsKey[1], !.day = day,
                       !.status = 200, !.dataKind = "history",
                       !.message = "History fetched successfully.",
                       !.items = res.items, !.total = res.total, !.date = lsKey[2],
                       !.offset = offset, !.lim = lim]
    /\ histLock' = [histLock EXCEPT ![lsKey].sh = 0]
    /\ lsPc' = "idle"
    /\ lsKey' = <<>>
    /\ UNCHANGED <<day, useFake, limit, upVars, ledgerVars, docVars, answered,
                   procVars, apPc, apReq>>

NextAppend ==
    \/ \E p \in Askers : AskStart(p, AppendUser, "d1", Q1)
    \/ \E p \in Askers : ApStamp(p)
    \/ \E p \in Askers : ApOpen(p)
    \/ \E p \in Askers : ApLock(p)
    \/ \E p \in Askers : ApUnlock(p)
    \/ \E p \in Askers : ApClose(p)
    \/ \E p \in Askers : ApCacheGet(p)
    \/ \E p \in Askers : ApCacheSet(p)
    \/ \E p \in Askers : ApInc(p)
    \/ \E p \in Askers : AskRespond(p)
    \/ \E d \in Days : LsLock(AppendUser, d)
    \/ LsRead(0, MaxListLimit)
    \/ Tick

SpecAppend == InitAppend /\ [][NextAppend]_vars

\* ---- SpecKeys: one ask of each user, concurrent with the others', and the
\* clock
\* A user who has not asked yet asks; the server hands the request to the
\* first free worker thread.
NextKeys ==
    \/ \E p \in Askers, u \in Users :
          /\ \A p2 \in Askers : apReq[p2].user # u
          /\ \A d \in Days : issued[<<u, d>>] = 0
          /\ \A p2 \in Askers : p2 < p => apPc[p2] # "idle"
          /\ AskStart(p, u, "d1", Q1)
    \/ \E p \in Askers : ApStamp(p)
    \/ \E p \in Askers : ApOpen(p)
    \/ \E p \in Askers : ApLock(p)
    \/ \E p \in Askers : ApUnlock(p)
    \/ \E p \in Askers : ApClose(p)
    \/ \E p \in Askers : ApCacheGet(p)
    \/ \E p \in Askers : ApCacheSet(p)
    \/ \E p \in Askers : ApInc(p)
    \/ \E p \in Askers : AskRespond(p)
    \/ Tick

SpecKeys == InitAppend /\ [][NextKeys]_vars

\* ===================================================================== claims
\* How many asks of the last request's user had been answered on that day
\* before the last request.
AnsweredBefore ==
    answered[<<last.user, last.day>>] - (IF last.status = 200 THEN 1 ELSE 0)

\* The ask about doc with question q finds usable context whatever the search
\* returns.
YieldsContext(doc, q) ==
    /\ indexFile[doc].exists
    /\ \A I \in AskSearches(doc, q) :
          \E j \in 1..Len(I) : 0 <= I[j] /\ I[j] < Len(GetChunksForDoc(chunkFile[doc]))

\* No position of I addresses a stored chunk of doc.
ZeroValid(doc, I) ==
    \A j \in 1..Len(I) :
        ~(0 <= I[j] /\ I[j] < Len(GetChunksForDoc(chunkFile[doc])))

\* C1: asks of one user on one UTC day, one after another: the effective count
\* equals the number of asks answered so far; an ask is rejected with 429
\* exactly when that number has reached the limit L; an ask about a document
\* that yields context is answered (200) exactly when it has not. So the k-th
\* such ask is answered iff k <= L.
C1_QuotaCounts ==
    /\ \A u \in Users : CountToday(u) = answered[<<u, day>>]
    /\ last.op = "ask" =>
          /\ (last.status = 429) <=> (AnsweredBefore >= limit)
          /\ YieldsContext(last.doc, last.question) =>
                ((last.status = 200) <=> (AnsweredBefore < limit))

\* The ask after L answered asks (L = 2) is rejected.
C1_Witness ==
    /\ last.op = "ask" /\ last.status = 429 /\ last.doc = "d1"
    /\ limit = 2 /\ answered[<<last.user, day>>] = 2

\* C3: an ask rejected with QuotaExceeded has called none of the retrieval
\* collaborators (index load, embedding, search, chunk file).
C3_QuotaBeforeRetrieval ==
    (last.op = "ask" /\ last.status = 429) => last.work \cap Retrieval = {}

\* A rejected ask about a built document, after an answered one.
C3_Witness ==
    /\ last.op = "ask" /\ last.status = 429 /\ last.doc = "d1"
    /\ limit >= 1

\* C6: an ask that does not end in 200 changes no history file, no usage
\* counter, no cache entry and no effective count; an ask that ends in 200
\* appends exactly one record to one history file.
C6_HistoryOnlyOnAnswer ==
    [][last'.op = "ask" =>
        IF last'.status = 200
        THEN \E k \in Keys :
                /\ Len(histFile'[k].content) = Len(histFile[k].content) + 1
                /\ SubSeq(histFile'[k].content, 1, Len(histFile[k].content))
                      = histFile[k].content
                /\ \A k2 \in Keys \ {k} : histFile'[k2] = histFile[k2]
        ELSE /\ histFile' = histFile
             /\ usageFile' = usageFile
             /\ cache' = cache
             /\ \A u \in Users : CountToday(u)' = CountToday(u)]_vars

\* A NoContext outcome for a user who has an answered ask on that day.
C6_Witness ==
    /\ last.op = "ask" /\ last.status = 404 /\ last.dataKind = "list"
    /\ answered[<<last.user, day>>] >= 1

\* C7: a listing with offset 0 and a limit of at least the number of lines
\* returns the records of the day in the reverse of their write order.
C7_ListReversed ==
    LET k == <<last.user, last.date>>
        lines == ReadAllLines(histFile[k])
        n == Len(lines)
    IN (last.op = "list" /\ last.offset = 0 /\ last.lim >= n) =>
          /\ Len(last.items) = issued[k]
          /\ \A i \in 1..Len(last.items) :
                /\ last.items[i] = Loads(lines[n - i + 1])
                /\ last.items[i].id = <<last.user, last.date, issued[k] - i + 1>>

\* A listing that returns at least two records in one page.
C7_Witness ==
    last.op = "list" /\ last.offset = 0 /\ Len(last.items) >= 2

\* C8: the total of a listing is the record count of the day's file, for every
\* offset and limit.
C8_TotalIndependent ==
    last.op = "list" =>
        /\ last.total = answered[<<last.user, last.date>>]
        /\ last.total = Len(ReadAllLines(histFile[<<last.user, last.date>>]))

\* A page that holds fewer records than the file.
C8_Witness ==
    /\ last.op = "list" /\ last.total = 2 /\ last.offset = 1
    /\ Len(last.items) = 1

\* C4: an ask by a user under quota about a document without an index file is
\* answered 404 "Knowledge base not found", with or without a chunk file; one
\* about a document with an index file and no chunk file is answered 404 too.
C4_NoIndexNotFound ==
    (last.op = "ask" /\ AnsweredBefore < limit) =>
        /\ ~indexFile[last.doc].exists =>
              /\ last.status = 404
              /\ last.message = "Knowledge base not found"
        /\ (indexFile[last.doc].exists /\ ~chunkFile[last.doc].exists) =>
              /\ last.status = 404
              /\ last.dataKind # "answer"

\* An ask about the document that has a chunk file and no index file.
C4_Witness ==
    /\ last.op = "ask" /\ last.doc = "d2" /\ last.status = 404
    /\ chunkFile["d2"].exists /\ ~indexFile["d2"].exists

\* C5: with the index present and no returned position addressing a stored
\* chunk, the ask answers 404 with an empty list as data and no answer is
\* synthesized; NotFound carries no data (null) and a message.
C5_NoContext ==
    (last.op = "ask" /\ AnsweredBefore < limit) =>
        /\ (indexFile[last.doc].exists /\ ZeroValid(last.doc, last.indices)) =>
              /\ last.status = 404
              /\ last.dataKind = "list"
              /\ last.answer = NoAnswer
              /\ last.context = <<>>
              /\ last.work \cap {"llm", "history"} = {}
        /\ ~indexFile[last.doc].exists =>
              /\ last.dataKind = "null"
              /\ last.message # ""

\* The index of d5 returns positions 1, 2, 3 for q1 and its chunk file holds
\* one chunk.
C5_Witness ==
    /\ last.op = "ask" /\ last.doc = "d5" /\ last.status = 404
    /\ last.dataKind = "list" /\ chunkFile["d5"].exists

\* C2: once every one of the M processes has finished its increment, the
\* persisted counter is M higher than before.
C2_NoLostUpdate ==
    (\A p \in Procs : incPc[p] = "done") =>
        ReadUsage(usageFile[CounterKey]) = incStart + MaxProcs

\* C9: after a successful ingestion the chunk sequence read back from the
\* chunk file is the chunk sequence that was embedded.
C9_ChunkRoundTrip ==
    ingPc = "done" => GetChunksForDoc(chunkFile[IngestDoc]) = ingChunks

\* Where the worker is before faiss.write_index has opened the index file.
BeforeIndexWrite ==
    {"queued", "chunked", "chunks_open", "chunks_closed", "embedding", "embedded"}

\* C10: an ask that got past the index check reads the whole chunk file of the
\* ingestion and answers from it; an ask that looked for the index before the
\* worker began to write it is answered "Knowledge base not found".
C10_NoPartialChunkSet ==
    /\ rdPc = "respond" => rdText = File(ChunkFileText(ingChunks))
    /\ (last.op = "ask" /\ last.status = 200) =>
          last.context = ContextOf(GetChunksForDoc(File(ChunkFileText(ingChunks))),
                                   last.indices)
    /\ (last.op = "ask" /\ last.sawIngest \in BeforeIndexWrite) =>
          /\ last.status = 404
          /\ last.message = "Knowledge base not found"

\* An ask that met the worker in the middle of the chunk file was answered
\* not found, and a later ask has read the chunk file of two chunks.
C10_Witness ==
    /\ last.op = "ask" /\ last.sawIngest = "chunks_open" /\ last.status = 404
    /\ rdPc = "respond" /\ Len(ingChunks) = 2

\* C11: the task returns True only when the extension was readable, there was
\* at least one chunk, the chunk file holds the chunks and the index file holds
\* their vectors; when it returns False no index file of the document exists.
C11_FailureLeavesNoIndex ==
    /\ ingPc = "done" =>
          /\ SupportedExt(ingExt) /\ ingChunks # <<>>
          /\ chunkFile[IngestDoc] = File(ChunkFileText(ingChunks))
          /\ indexFile[IngestDoc] = File(EmbedDocuments(ingChunks))
    /\ ingPc = "failed" => ~indexFile[IngestDoc].exists

\* C12: when the task has failed on an extension parse_document does not read,
\* the chunk file and the index file of the document are as they were before.
C12_UnsupportedNoWrite ==
    (ingPc = "failed" /\ ingExt \notin {"pdf", "txt", "md"}) =>
        /\ chunkFile[IngestDoc] = InitChunkFile[IngestDoc]
        /\ indexFile[IngestDoc] = InitIndexFile[IngestDoc]

\* The task of an .exe upload has returned False.
C12_Witness ==
    /\ ingPc = "failed" /\ ingExt = "exe"
    /\ ~chunkFile[IngestDoc].exists /\ ~indexFile[IngestDoc].exists

\* C14: when a process has died inside its increment and no other process is
\* inside one, the persisted counter holds the value it had before (no
\* increment has completed) or a higher one.
C14_CrashKeepsCounter ==
    (/\ \E p \in Procs : incPc[p] = "crashed"
     /\ \A p \in Procs : incPc[p] \in {"idle", "crashed", "done"}) =>
        ReadUsage(usageFile[CounterKey]) >= incStart

\* C20: no read of the counter returns less than an earlier read.
C20_ReadsNeverDecrease ==
    [][incSeen' >= incSeen]_vars

\* C15: while at least one of the three sources of a (user, day) still holds
\* every answered ask, the effective count is at least each source and equals
\* the number of answered asks, and an ask of a user who has reached the limit
\* is rejected with 429.
C15_MaxOfSources ==
    /\ \A u \in Users :
          LET k == <<u, day>>
          IN /\ CountToday(u) >= Len(ReadAllLines(histFile[k]))
             /\ CountToday(u) >= cache[k]
             /\ CountToday(u) >= ReadUsage(usageFile[k])
             /\ CountToday(u) = answered[k]
    /\ (last.op = "ask" /\ AnsweredBefore >= limit) => last.status = 429

\* A user at the limit is rejected after the restart has emptied the cache and
\* the counter file is gone: only the history file holds the count.
C15_Witness ==
    /\ last.op = "ask" /\ last.status = 429 /\ limit = 2
    /\ cache[<<LossUser, day>>] = 0
    /\ ~usageFile[<<LossUser, day>>].exists
    /\ Len(ReadAllLines(histFile[<<LossUser, day>>])) = 2

\* The three sources of the count of key k.
SourcesOf(k) == <<histFile[k], cache[k], usageFile[k]>>

C19_SelfSimilarity ==
    (/\ last.op = "ask" /\ last.sawIngest = "done"
     /\ \E j \in 1..Len(ingChunks) : ingChunks[j] = last.question) =>
        /\ last.status = 200
        /\ \E i \in 1..Len(last.context) : last.context[i] = last.question

\* C13: every document whose task was sent is on record; once the worker's run
\* of its task has returned, its status is indexed after True and failed, with
\* the cause on the record, after False.
C13_StatusReflectsOutcome ==
    /\ \A i \in 1..Len(sent) : sent[i].doc_id \in DOMAIN fake_documents_db
    /\ \A i \in 1..Len(taskResults) :
          LET d == fake_documents_db[sent[i].doc_id]
          IN IF taskResults[i]
             THEN d.status = "indexed"
             ELSE d.status = "failed" /\ d.error # "None"

\* C17: the accepted uploads, in the order of their acceptance, have ids that
\* start at 1 and grow; each is on record with its id and one task was sent for
\* it, with its id and the path its file was saved under.
C17_MonotonicIds ==
    /\ Len(sent) >= 1 => sent[1].doc_id = 1
    /\ \A i, j \in 1..Len(sent) : i < j => sent[i].doc_id < sent[j].doc_id
    /\ DOMAIN fake_documents_db = {sent[i].doc_id : i \in 1..Len(sent)}
    /\ \A i \in 1..Len(sent) :
          /\ fake_documents_db[sent[i].doc_id].id = sent[i].doc_id
          /\ sent[i].file_path \in savedFiles
          /\ sent[i].file_path[1] = sent[i].doc_id

\* C18: a step that leaves a rejection (401 or 400) as the response of the
\* upload endpoint adds no document, no saved file and no task; documents,
\* saved files and tasks are as many as each other.
C18_RejectedNoEffect ==
    /\ [][(last'.op = "upload" /\ last'.status # 201) =>
            /\ fake_documents_db' = fake_documents_db
            /\ savedFiles' = savedFiles
            /\ sent' = sent]_vars
    /\ [](/\ Cardinality(DOMAIN fake_documents_db) = Len(sent)
          /\ Cardinality(savedFiles) = Len(sent))

\* An upload that passed the validation of its name and content type was
\* rejected for its size.
C18_Witness ==
    /\ last.op = "upload" /\ last.status = 400 /\ last.message = "File too large"
    /\ doc_id_counter = 2
    /\ fake_documents_db = <<>> /\ savedFiles = {} /\ sent = <<>>

\* C23: the context of an answered ask holds at most top-k chunks; they are
\* the stored chunks at the returned positions p with 0 <= p < number of
\* stored chunks, every such position is used, in the order of the search
\* result, and the search result is ordered by ascending distance.
C23_ContextFromValidPositions ==
    (last.op = "ask" /\ last.status = 200) =>
        LET chunks == GetChunksForDoc(chunkFile[last.doc])
            index == indexFile[last.doc].content
            qv == MakeQueryVector(last.question)
            I == last.indices
            c == last.context
            InRange(j) == 0 <= I[j] /\ I[j] < Len(chunks)
        IN /\ Len(c) <= TopK
           /\ \E f \in [1..Len(c) -> 1..Len(I)] :
                 /\ \A i, j \in 1..Len(c) : i < j => f[i] < f[j]
                 /\ \A i \in 1..Len(c) : InRange(f[i]) /\ c[i] = chunks[I[f[i]] + 1]
                 /\ \A j \in 1..Len(I) : InRange(j) => \E i \in 1..Len(c) : f[i] = j
           /\ \A i, j \in 1..Len(I) :
                 (i < j /\ I[i] >= 0 /\ I[j] >= 0) =>
                    Dist(index[I[i] + 1], qv) <= Dist(index[I[j] + 1], qv)

\* An answered ask about the one-chunk document: the search filled two of the
\* three places with -1.
C23_Witness ==
    /\ last.op = "ask" /\ last.status = 200 /\ last.doc = "d6"
    /\ last.indices = <<0, -1, -1>> /\ Len(last.context) = 1

\* C24: the chunk_indices of the history entry of an answered ask are the
\* positions of the chunks of its context, one for one and in order.
C24_IndicesMatchContext ==
    (last.op = "ask" /\ last.status = 200) =>
        LET lines == ReadAllLines(histFile[<<last.user, last.day>>])
            entry == Loads(lines[Len(lines)])
            chunks == GetChunksForDoc(chunkFile[last.doc])
        IN /\ Len(entry.chunk_indices) = Len(last.context)
           /\ \A i \in 1..Len(last.context) :
                 /\ 0 <= entry.chunk_indices[i]
                 /\ entry.chunk_indices[i] < Len(chunks)
                 /\ last.context[i] = chunks[entry.chunk_indices[i] + 1]

\* The pages of a file listed with limit L at offsets offset, offset + L, ...
\* up to the total the listing reports, one after another.
RECURSIVE PagesFrom(_, _, _)
PagesFrom(file, offset, L) ==
    LET page == ListHistory(file, offset, L)
    IN IF offset >= page.total THEN <<>>
       ELSE page.items \o PagesFrom(file, offset + L, L)

\* The well-formed records of a file, most recent first.
WellFormedNewestFirst(file) ==
    LET good == SelectSeq(Reverse(ReadAllLines(file)), IsJson)
    IN [i \in 1..Len(good) |-> Loads(good[i])]

\* C25: after a first page was listed with limit L, the pages at offsets 0, L,
\* 2L, ... of that file hold at most L records each and, one after another,
\* are its well-formed records, most recent first, each exactly once.
C25_PagesPartition ==
    (last.op = "list" /\ last.offset = 0) =>
        LET file == histFile[<<last.user, last.date>>]
        IN /\ Len(last.items) <= last.lim
           /\ PagesFrom(file, 0, last.lim) = WellFormedNewestFirst(file)

\* C28: every step of append, list, count and enforce leaves each history
\* file with its former lines as a prefix of its lines, adds only whole
\* records at the end, never removes a file, and a listing or a rejected ask
\* (count and enforce only) changes no history file.
C28_RecordsImmutable ==
    [][/\ \A k \in Keys :
            LET old == histFile[k].content
                new == histFile'[k].content
            IN /\ Len(old) <= Len(new)
               /\ SubSeq(new, 1, Len(old)) = old
               /\ \A i \in (Len(old) + 1)..Len(new) : IsJson(new[i])
               /\ histFile[k].exists => histFile'[k].exists
               /\ ~histFile'[k].torn
       /\ (last'.op = "list" \/ last'.status # 200) => histFile' = histFile]_vars

\* A listing of a day that already holds two records, after which the file
\* still holds them.
C28_Witness ==
    /\ last.op = "list"
    /\ last.total = 2
    /\ Len(last.items) = 2
    /\ Len(histFile[<<last.user, last.date>>].content) = 2

RECURSIVE SumOver(_, _)
SumOver(f, S) ==
    IF S = {} THEN 0
    ELSE LET k == CHOOSE x \in S : TRUE IN f[k] + SumOver(f, S \ {k})

\* The asks that are inside append_history_entry.
Appending == {p \in Askers : apPc[p] \notin {"idle", "done"}}

\* C21: a history file gets bytes only from the process that holds its
\* exclusive lock; once all appends have returned the files hold one whole
\* record per answered ask; a listing under the shared lock sees whole
\* records only.
C21_AppendsSerialized ==
    /\ [][\A k \in Keys :
            histFile'[k].content # histFile[k].content =>
                \E p \in Askers : histLock[k].ex = p /\ ApKey(p) = k]_vars
    /\ []((\A p \in Askers : apPc[p] = "idle") =>
            /\ SumOver([k \in Keys |-> Len(histFile[k].content)], Keys)
                  = SumOver(answered, Keys)
            /\ \A k \in Keys : \A i \in 1..Len(histFile[k].content) :
                  IsJson(histFile[k].content[i]))
    /\ [](last.op = "list" => Len(last.items) = Min(last.total, last.lim))

\* C22: with concurrent asks of one user, the asks answered with 200 on a
\* day never exceed the limit.
C22_ConcurrentAsksWithinLimit ==
    \A d \in Days : answered[<<AppendUser, d>>] <= limit

\* C26: an answered ask used one UTC day throughout: for the quota check, the
\* timestamp, the history file, the cache key and the usage counter.
C26_OneDayPerAsk ==
    \A p \in Askers :
        apPc[p] = "done" =>
            /\ apReq[p].dayStamp = apReq[p].dayChecked
            /\ apReq[p].dayFile = apReq[p].dayChecked
            /\ apReq[p].dayCache = apReq[p].dayChecked
            /\ apReq[p].dayUsage = apReq[p].dayChecked

\* C27: the usage counter of a (user, day) is at most the number of records
\* of its history file, and equal to it when no append of the user is running.
C27_UsageAtMostRecords ==
    \A k \in Keys :
        /\ ReadUsage(usageFile[k]) <= Len(ReadAllLines(histFile[k]))
        /\ (\A p \in Appending : apReq[p].user # k[1]) =>
              ReadUsage(usageFile[k]) = Len(ReadAllLines(histFile[k]))

\* The key of the ledger or log operation that process p performs next.
OpKey(p) ==
    IF apPc[p] = "close" THEN ApKey(p)
    ELSE IF apPc[p] = "cacheSet" THEN <<apReq[p].user, apReq[p].dayCache>>
    ELSE <<apReq[p].user, day>>

EffectiveCount(k) ==
    Max(Len(ReadAllLines(histFile[k])), Max(cache[k], ReadUsage(usageFile[k])))

\* C29: a step of an append or increment for one key leaves the history file,
\* the cache entry, the usage counter and the effective count of every other
\* key as they were, and an appender whose own file is unlocked can take its
\* lock whatever locks are held on other files.
C29_KeysIndependent ==
    /\ [][\A p \in Askers :
            apPc'[p] # apPc[p] =>
                \A k \in Keys \ {OpKey(p)} :
                    /\ histFile'[k] = histFile[k]
                    /\ usageFile'[k] = usageFile[k]
                    /\ cache'[k] = cache[k]
                    /\ EffectiveCount(k)' = EffectiveCount(k)]_vars
    /\ [](\A p \in Askers :
            (/\ apPc[p] = "lock"
             /\ histLock[ApKey(p)].ex = 0
             /\ histLock[ApKey(p)].sh = 0) => ENABLED ApLock(p))

\* Two appenders hold the locks of two different keys at the same time.
C29_Witness ==
    \E p1, p2 \in Askers :
        /\ apPc[p1] = "unlock"
        /\ apPc[p2] = "unlock"
        /\ ApKey(p1) # ApKey(p2)
        /\ histLock[ApKey(p1)].ex = p1
        /\ histLock[ApKey(p2)].ex = p2

====
